---- MODULE Spec2Model ----
(***************************************************************************)
(* EditChannelHeaderModal                                                  *)
(* (src/components/edit_channel_header_modal/edit_channel_header_modal.tsx)*)
(*                                                                         *)
(* The component is a state machine over its React state {header, saving,  *)
(* serverError}, its props, and the promises returned by patchChannel that *)
(* have not yet resolved.  Every DOM event handler is one action.  Strings *)
(* are sequences of characters.                                            *)
(***************************************************************************)
EXTENDS Integers, Sequences, FiniteSets, Bags

\* ------------------------------------------------------------------ bounds
MaxLen == 1          \* longest header the textbox holds in the model
MaxInflight == 2     \* most patchChannel promises pending at once

\* --------------------------------------------------------------- constants
ENTER == "Enter"
ESCAPE == "Escape"
EDIT_CHANNEL_HEADER == "edit_channel_header"
HEADER_TOO_LONG_ID == "model.channel.is_valid.header.app_error"
LineBreak == "\n"
Chars == {"a", LineBreak}
Keys == {ENTER, ESCAPE, "a"}

\* JavaScript null / undefined
null == [isNull |-> TRUE]

\* holders.error: the message descriptor of the friendly text
holders == [error |-> [id |-> "edit_channel_header_modal.error",
                       defaultMessage |-> "This channel header is too long, please enter a shorter one"]]

\* Error payloads the server may answer with
Errors == {[server_error_id |-> HEADER_TOO_LONG_ID, message |-> "raw: header too long"],
           [server_error_id |-> "api.context.permissions.app_error", message |-> "raw: no permission"]}

Strings == UNION {[1..n -> Chars] : n \in 0..MaxLen}

VARIABLES
    channel,        \* props.channel
    ctrlSend,       \* props.ctrlSend
    show,           \* props.show, owned by the modal store
    mobile,         \* what isMobile() answers on this client
    header,         \* state.header
    saving,         \* state.saving
    serverError,    \* state.serverError
    inflight,       \* bag of patchChannel calls whose promise is pending
    view,           \* what render() last produced
    ev,             \* the event whose handler ran last
    keypressDue,    \* the browser still has to dispatch the keypress of ev
    trace           \* calls made by the handler(s) of ev, in order

vars == <<channel, ctrlSend, show, mobile, header, saving, serverError,
          inflight, view, ev, keypressDue, trace>>

\* ------------------------------------------------- helpers of utils/*.jsx
isKeyPressed(e, key) == e.key = key

isMobile == mobile

isUnhandledLineBreakKeyCombo(e) ==
    isKeyPressed(e, ENTER) /\ (e.shiftKey \/ e.altKey)

\* the textbox value with its selection replaced by a line break
insertLineBreakFromKeyEvent(e) ==
    SubSeq(e.value, 1, e.selectionStart) \o <<LineBreak>>
        \o SubSeq(e.value, e.selectionEnd + 1, Len(e.value))

\* intl.formatMessage: the catalogue's text for the descriptor's id
formatMessage(descriptor) ==
    IF descriptor.id = "edit_channel_header_modal.error"
    THEN "localized: header too long"
    ELSE descriptor.defaultMessage

\* ------------------------------------------------------ the actions bundle
\* A handler works on a record c of the component's state and props, to which
\* it appends the calls it makes.
\* arg is the record of the call's arguments
Call(fn, arg) == [fn |-> fn, arg |-> arg]

\* the calls of fn in a trace
Calls(tr, fn) == SelectSeq(tr, LAMBDA x : x.fn = fn)

\* actions.closeModal(modalId): the store dismisses the modal of that id
closeModal(c, modalId) ==
    [c EXCEPT !.trace = Append(@, Call("closeModal", [modalId |-> modalId])),
              !.show = IF modalId = EDIT_CHANNEL_HEADER THEN FALSE ELSE @]

\* actions.patchChannel(channelId, patch): returns a pending promise
patchChannel(c, channelId, patch) ==
    [c EXCEPT !.trace = Append(@, Call("patchChannel", [channelId |-> channelId, patch |-> patch])),
              !.inflight = @ (+) SetToBag({[channelId |-> channelId, patch |-> patch]})]

\* actions.setShowPreview(newState)
actionsSetShowPreview(c, newState) ==
    [c EXCEPT !.trace = Append(@, Call("setShowPreview", [newState |-> newState]))]

\* ---------------------------------------------------------------- handlers
\* variant: a dismissal that abandons the pending save
hideModalCancelsSave(c) ==
    [closeModal(c, EDIT_CHANNEL_HEADER) EXCEPT !.inflight = EmptyBag]

hideModal(c) == closeModal(c, EDIT_CHANNEL_HEADER)

\* variant: any key pressed on the dialog closes it
handleModalKeyDownAnyKey(c, e) == hideModal(c)

handleModalKeyDown(c, e) ==
    IF isKeyPressed(e, ESCAPE) THEN hideModal(c) ELSE c

setShowPreview(c, newState) == actionsSetShowPreview(c, newState)

\* variant: editing the header clears the displayed error
handleChangeClearsError(c, value) ==
    [c EXCEPT !.header = value, !.serverError = null]

handleChange(c, value) == [c EXCEPT !.header = value]

\* variant: no comparison with the channel's header
handleSaveAlwaysPatches(c) ==
    patchChannel([c EXCEPT !.trace = Append(@, Call("handleSave", [header |-> c.header])),
                           !.saving = TRUE],
                 channel.id, [channel EXCEPT !.header = c.header])

\* variant: the patch is the channel object without the local header merged in
handleSaveSendsChannel(c) ==
    LET c0 == [c EXCEPT !.trace = Append(@, Call("handleSave", [header |-> c.header]))]
    IN  IF c0.header = channel.header
        THEN hideModal(c0)
        ELSE patchChannel([c0 EXCEPT !.saving = TRUE], channel.id, channel)

\* handleSave up to its await
handleSave(c) ==
    LET c0 == [c EXCEPT !.trace = Append(@, Call("handleSave", [header |-> c.header]))]
    IN  IF c0.header = channel.header
        THEN hideModal(c0)
        ELSE patchChannel([c0 EXCEPT !.saving = TRUE],
                          channel.id, [channel EXCEPT !.header = c0.header])

\* variant: an error response does not reset saving
handleSaveResumeKeepsSaving(c, error) ==
    IF error # null
    THEN [c EXCEPT !.serverError = error]
    ELSE hideModal(c)

\* variant: the modal is closed whatever the response
handleSaveResumeAlwaysCloses(c, error) ==
    IF error # null
    THEN hideModal([c EXCEPT !.serverError = error, !.saving = FALSE])
    ELSE hideModal(c)

\* handleSave after its await: the promise resolved to {error}
handleSaveResume(c, error) ==
    IF error # null
    THEN [c EXCEPT !.serverError = error, !.saving = FALSE]
    ELSE hideModal(c)

\* variant: the key event's default is not prevented
handleKeyPressNoPreventDefault(c, e) ==
    IF ~isMobile /\ ((ctrlSend /\ e.ctrlKey) \/ ~ctrlSend)
    THEN IF isKeyPressed(e, ENTER) /\ ~e.shiftKey /\ ~e.altKey
         THEN handleSave(c)
         ELSE c
    ELSE c

handleKeyPress(c, e) ==
    IF ~isMobile /\ ((ctrlSend /\ e.ctrlKey) \/ ~ctrlSend)
    THEN IF isKeyPressed(e, ENTER) /\ ~e.shiftKey /\ ~e.altKey
         THEN handleSave([c EXCEPT !.defaultPrevented = TRUE])
         ELSE c
    ELSE c

handleKeyDown(c, e) ==
    IF isUnhandledLineBreakKeyCombo(e)
    THEN [c EXCEPT !.header = insertLineBreakFromKeyEvent(e)]
    ELSE IF ctrlSend /\ isKeyPressed(e, ENTER) /\ e.ctrlKey = TRUE
         THEN handleKeyPress(c, e)
         ELSE c

\* variant: every error shows its own message
renderErrorRawMessage(c) ==
    IF c.serverError = null
    THEN null
    ELSE [errorMsg |-> c.serverError.message]

renderError(c) ==
    IF c.serverError = null
    THEN null
    ELSE [errorMsg |-> IF c.serverError.server_error_id = HEADER_TOO_LONG_ID
                       THEN formatMessage(holders.error)
                       ELSE c.serverError.message]

render(c) ==
    [show |-> c.show, value |-> c.header, error |-> renderError(c),
     saveDisabled |-> c.saving]

\* ------------------------------------------------------------- transitions
\* the component as a handler finds it
Cur == [header |-> header, saving |-> saving, serverError |-> serverError,
        inflight |-> inflight, show |-> show, trace |-> <<>>,
        defaultPrevented |-> FALSE]

\* error: what a response resolved to; saves: the handleSave invocations of
\* the keystroke so far (its key-down and its keypress)
Event(type) == [type |-> type, key |-> "", ctrlKey |-> FALSE, shiftKey |-> FALSE,
                altKey |-> FALSE, target |-> "", error |-> null, saves |-> 0]

KeyEvent(type, e, saves) ==
    [type |-> type, key |-> e.key, ctrlKey |-> e.ctrlKey, shiftKey |-> e.shiftKey,
     altKey |-> e.altKey, target |-> e.target, error |-> null, saves |-> saves]

\* the handlers of event e left the component as c; React re-renders
Commit(c, e, due) ==
    /\ Len(c.header) <= MaxLen
    /\ BagCardinality(c.inflight) <= MaxInflight
    /\ header' = c.header
    /\ saving' = c.saving
    /\ serverError' = c.serverError
    /\ inflight' = c.inflight
    /\ show' = c.show
    /\ trace' = c.trace
    /\ view' = render(c)
    /\ ev' = e
    /\ keypressDue' = due
    /\ UNCHANGED <<channel, ctrlSend, mobile>>

\* the channel being edited; its header is not empty, so that the user can
\* clear it, replace it, or leave it as it is
Channels == {[id |-> "channel_id", header |-> h, display_name |-> "Town Square", type |-> "O"] :
                h \in {<<"a">>}}

\* the state the constructor leaves, rendered, with the modal open
Init ==
    /\ channel \in Channels
    /\ ctrlSend \in BOOLEAN
    /\ mobile \in BOOLEAN
    /\ show = TRUE
    /\ header = channel.header
    /\ saving = FALSE
    /\ serverError = null
    /\ inflight = EmptyBag
    /\ trace = <<>>
    /\ ev = Event("construct")
    /\ keypressDue = FALSE
    /\ view = render([header |-> channel.header, saving |-> FALSE,
                      serverError |-> null, show |-> TRUE])

\* user input is possible while the dialog is rendered and no keypress is owed
Interactive == view.show /\ ~keypressDue

\* key-down events: in the textbox every modifier combination of Enter, and
\* Escape and a letter; on the dialog outside the textbox each key
TextboxKeys ==
    {[key |-> ENTER, ctrlKey |-> c, shiftKey |-> s, altKey |-> a, target |-> "textbox"] :
        c \in BOOLEAN, s \in BOOLEAN, a \in BOOLEAN}
    \cup {[key |-> k, ctrlKey |-> FALSE, shiftKey |-> FALSE, altKey |-> FALSE, target |-> "textbox"] :
        k \in {ESCAPE, "a"}}

ModalKeys ==
    {[key |-> k, ctrlKey |-> FALSE, shiftKey |-> FALSE, altKey |-> FALSE, target |-> "modal"] :
        k \in Keys}

\* the DOM event: the key event with the textbox's value and selection
Dom(k, s, t) ==
    [key |-> k.key, ctrlKey |-> k.ctrlKey, shiftKey |-> k.shiftKey, altKey |-> k.altKey,
     target |-> k.target, value |-> header, selectionStart |-> s, selectionEnd |-> t]

\* Textbox onChange
Change(value) ==
    /\ Interactive
    /\ Commit(handleChange(Cur, value), Event("change"), FALSE)

\* a key-down in the textbox: Textbox onKeyDown, then it bubbles to Modal onKeyDown
TextboxKeyDown(k, s, t) ==
    /\ Interactive
    /\ LET c == handleModalKeyDown(handleKeyDown(Cur, Dom(k, s, t)), Dom(k, s, t))
       IN  Commit(c, KeyEvent("keydown", k, Len(Calls(c.trace, "handleSave"))),
                  k.key # ESCAPE /\ ~c.defaultPrevented)

\* a key-down on the dialog outside the textbox: Modal onKeyDown
ModalKeyDown(k) ==
    /\ Interactive
    /\ Commit(handleModalKeyDown(Cur, Dom(k, 0, 0)), KeyEvent("keydown", k, 0), FALSE)

\* Textbox onKeyPress, which follows the key-down unless its default was prevented
KeyPress ==
    /\ keypressDue
    /\ LET c == handleKeyPress(Cur, ev)
       IN  Commit(c, KeyEvent("keypress", ev, ev.saves + Len(Calls(c.trace, "handleSave"))),
                  FALSE)

\* the save button, which render() disables while saving
ClickSave ==
    /\ Interactive
    /\ ~view.saveDisabled
    /\ Commit(handleSave(Cur), Event("clickSave"), FALSE)

ClickCancel ==
    /\ Interactive
    /\ Commit(hideModal(Cur), Event("clickCancel"), FALSE)

\* Modal onHide: the header's close button
Hide ==
    /\ Interactive
    /\ Commit(hideModal(Cur), Event("hide"), FALSE)

\* Modal onExited: the dialog finished its exit transition
Exited ==
    /\ ~view.show
    /\ Commit(hideModal(Cur), Event("exited"), FALSE)

\* TextboxLinks updatePreview
UpdatePreview(newState) ==
    /\ Interactive
    /\ Commit(setShowPreview(Cur, newState), Event("updatePreview"), FALSE)

\* a pending patchChannel promise resolves to {error}
Response(p, error) ==
    /\ ~keypressDue
    /\ BagIn(p, inflight)
    /\ Commit(handleSaveResume([Cur EXCEPT !.inflight = @ (-) SetToBag({p})], error),
              [Event("response") EXCEPT !.error = error], FALSE)

\* the store opens the modal again: props.show becomes true
Show ==
    /\ ~show
    /\ ~keypressDue
    /\ Commit([Cur EXCEPT !.show = TRUE], Event("show"), FALSE)

Next ==
    \/ \E value \in Strings : Change(value)
    \/ \E k \in TextboxKeys : \E s \in 0..Len(header) : \E t \in s..Len(header) :
            TextboxKeyDown(k, s, t)
    \/ \E k \in ModalKeys : ModalKeyDown(k)
    \/ KeyPress
    \/ ClickSave
    \/ ClickCancel
    \/ Hide
    \/ Exited
    \/ \E newState \in BOOLEAN : UpdatePreview(newState)
    \/ \E p \in BagToSet(inflight) : \E error \in Errors \cup {null} : Response(p, error)
    \/ Show

Spec == Init /\ [][Next]_vars

\* the types of Props and State
TypeOK ==
    /\ channel \in Channels
    /\ ctrlSend \in BOOLEAN /\ show \in BOOLEAN /\ mobile \in BOOLEAN
    /\ header \in Strings
    /\ saving \in BOOLEAN
    /\ serverError \in Errors \cup {null}
    /\ IsABag(inflight) /\ BagCardinality(inflight) <= MaxInflight
    /\ keypressDue \in BOOLEAN
    /\ view = render(Cur)

\* ================================================================== claims
\* what the handlers of the last step did
SaveInvoked(tr) == Len(Calls(tr, "handleSave")) > 0
CloseCall == Call("closeModal", [modalId |-> EDIT_CHANNEL_HEADER])
PatchArg(h) == [channelId |-> channel.id, patch |-> [channel EXCEPT !.header = h]]
IsDismissal(e) ==
    \/ e.type \in {"clickCancel", "hide", "exited"}
    \/ e.type = "keydown" /\ e.key = ESCAPE
Pending == BagCardinality(inflight)

\* C1: while a patchChannel call is awaiting its response no further
\* patchChannel call is issued, whatever the user does: at most one call is
\* pending at any time.
C1_NoDuplicateSubmission == Pending <= 1

\* C2 as stated: saving = TRUE implies that a patchChannel call is still
\* awaiting its response.
C2_SavingOnlyWhilePending == saving => Pending > 0

\* C2 as amended: saving becomes true only when handleSave issues a
\* patchChannel call; every error response leaves saving false and nothing
\* else resets it; a success response leaves saving as it was.
C2_SavingSetBySaveResetByError ==
    [][ /\ (~saving /\ saving') =>
            SaveInvoked(trace') /\ Len(Calls(trace', "patchChannel")) = 1
        /\ (saving /\ ~saving') => ev'.type = "response" /\ ev'.error # null
        /\ (ev'.type = "response" /\ ev'.error # null) => ~saving'
        /\ (ev'.type = "response" /\ ev'.error = null) => saving' = saving
      ]_vars

\* a success response has been applied, no call is pending, saving is still true
C2_Witness == ev.type = "response" /\ ev.error = null /\ saving /\ Pending = 0

\* C3: handleSave with the local header equal to the channel's header calls
\* closeModal(EDIT_CHANNEL_HEADER), does not call patchChannel, and leaves
\* saving, header and serverError unchanged.
C3_UnchangedHeaderOnlyCloses ==
    [][ (SaveInvoked(trace') /\ header = channel.header) =>
            /\ Calls(trace', "closeModal") = <<CloseCall>>
            /\ Calls(trace', "patchChannel") = <<>>
            /\ inflight' = inflight
            /\ UNCHANGED <<saving, header, serverError>>
      ]_vars

\* handleSave ran on an unchanged header after a failed save
C3_Witness ==
    /\ SaveInvoked(trace)
    /\ header = channel.header
    /\ Calls(trace, "closeModal") = <<CloseCall>>
    /\ serverError # null

\* C4: handleSave with the local header different from the channel's header
\* calls patchChannel exactly once, with the channel's id and the channel
\* object whose header is replaced by the local header of that moment; a later
\* edit of the header leaves the pending payloads as they are.
C4_PatchOnceWithMergedHeader ==
    [][ /\ (SaveInvoked(trace') /\ header # channel.header) =>
            /\ Calls(trace', "patchChannel") = <<Call("patchChannel", PatchArg(header))>>
            /\ inflight' = inflight (+) SetToBag({PatchArg(header)})
            /\ saving'
        /\ (header' # header) => inflight' = inflight
      ]_vars

\* a call is pending whose payload no longer equals the edited local header
C4_Witness ==
    /\ Pending = 1
    /\ ev.type = "change"
    /\ \E p \in BagToSet(inflight) :
            p.patch.header # header /\ p.patch.header # channel.header /\ p.channelId = channel.id

\* C5: an error response stores the error in serverError, sets saving to
\* false and does not call closeModal; a response without error calls
\* closeModal(EDIT_CHANNEL_HEADER) and stores no serverError; neither issues
\* another patchChannel call.
C5_ResponseHandling ==
    [][ ev'.type = "response" =>
            /\ Calls(trace', "patchChannel") = <<>>
            /\ BagCardinality(inflight') = Pending - 1
            /\ ev'.error # null =>
                    /\ serverError' = ev'.error
                    /\ ~saving'
                    /\ Calls(trace', "closeModal") = <<>>
            /\ ev'.error = null =>
                    /\ Calls(trace', "closeModal") = <<CloseCall>>
                    /\ serverError' = serverError
      ]_vars

\* an error response has been applied to a save that was pending alone
C5_Witness ==
    /\ ev.type = "response" /\ ev.error # null
    /\ serverError = ev.error /\ ~saving /\ Pending = 0 /\ show

\* C6 as stated: after a save completed successfully serverError is null.
C6_ClearedOnSuccess ==
    (ev.type = "response" /\ ev.error = null) => serverError = null

\* C6 as amended: serverError changes only when an error response arrives,
\* and then to that response's error; edits, key events, preview toggles,
\* dismissals, save initiations and success responses leave it unchanged.
C6_ErrorPersistsUntilNextError ==
    [][ serverError' # serverError =>
            ev'.type = "response" /\ ev'.error # null /\ serverError' = ev'.error
      ]_vars

\* a save succeeded after an earlier one failed, and the old error is still stored
C6_Witness ==
    /\ ev.type = "response" /\ ev.error = null
    /\ serverError # null
    /\ view.error # null

\* C7: an Enter keystroke in the textbox of a non-mobile client invokes
\* handleSave exactly once when neither Shift nor Alt is held and Ctrl is held
\* or ctrl-send is off, and not at all otherwise; with Shift or Alt held the
\* key-down replaces the selection of the header by a line break.
EnterInTextbox(e) ==
    e.type \in {"keydown", "keypress"} /\ e.target = "textbox" /\ e.key = ENTER
Qualifies(e) == ~e.shiftKey /\ ~e.altKey /\ (ctrlSend => e.ctrlKey)
C7_EnterSavesOnce ==
    [][ ~mobile =>
            /\ (EnterInTextbox(ev') /\ ~keypressDue') =>
                    ev'.saves = IF Qualifies(ev') THEN 1 ELSE 0
            /\ (EnterInTextbox(ev') /\ ev'.type = "keydown" /\ (ev'.shiftKey \/ ev'.altKey)) =>
                    /\ \E s \in 0..Len(header) : \E t \in s..Len(header) :
                            header' = SubSeq(header, 1, s) \o <<LineBreak>>
                                        \o SubSeq(header, t + 1, Len(header))
                    /\ trace' = <<>>
      ]_vars

\* Ctrl+Enter with ctrl-send on saved a changed header from the key-down
C7_Witness ==
    /\ ~mobile /\ ctrlSend
    /\ EnterInTextbox(ev) /\ ev.type = "keydown" /\ ev.ctrlKey /\ ~keypressDue
    /\ ev.saves = 1
    /\ Pending > 0

\* C8: renderError shows nothing when serverError is null, the localized
\* header-too-long message when the error's server_error_id is
\* 'model.channel.is_valid.header.app_error', and otherwise the error's
\* message unchanged.
C8_RenderError ==
    /\ serverError = null => view.error = null
    /\ (serverError # null /\ serverError.server_error_id = HEADER_TOO_LONG_ID) =>
            view.error = [errorMsg |-> formatMessage(holders.error)]
    /\ (serverError # null /\ serverError.server_error_id # HEADER_TOO_LONG_ID) =>
            view.error = [errorMsg |-> serverError.message]

\* the header-too-long error is stored and its own message is not what is shown
C8_Witness ==
    /\ serverError # null
    /\ serverError.server_error_id = HEADER_TOO_LONG_ID
    /\ view.error # null
    /\ view.error.errorMsg # serverError.message

\* C9: Escape on the modal, Cancel, and the dialog's hide and exited events
\* each call closeModal(EDIT_CHANNEL_HEADER) and nothing else, and leave
\* header, saving, serverError and the pending calls unchanged; another key
\* pressed on the dialog outside the textbox calls nothing.
C9_DismissOnlyCloses ==
    [][ /\ IsDismissal(ev') =>
            /\ trace' = <<CloseCall>>
            /\ ~show'
            /\ inflight' = inflight
            /\ UNCHANGED <<header, saving, serverError>>
        /\ (ev'.type = "keydown" /\ ev'.target = "modal" /\ ev'.key # ESCAPE) =>
            /\ trace' = <<>>
            /\ UNCHANGED <<header, saving, serverError, inflight, show>>
      ]_vars

\* Escape closed the modal while a save was pending
C9_Witness ==
    /\ ev.type = "keydown" /\ ev.key = ESCAPE
    /\ trace = <<CloseCall>>
    /\ saving /\ Pending > 0

\* C10: dismissing the modal while a save is in flight leaves the call
\* pending, its response can still arrive, and it is applied to the dismissed
\* component: an error is stored and saving reset, a success calls
\* closeModal(EDIT_CHANNEL_HEADER) again.
C10_NoCancellation ==
    /\ [](Pending > 0 /\ ~keypressDue =>
            ENABLED (\E p \in BagToSet(inflight) : \E error \in Errors \cup {null} :
                        Response(p, error)))
    /\ [][ /\ (IsDismissal(ev') /\ Pending > 0) => inflight' = inflight
           /\ (ev'.type = "response" /\ ~show) =>
                /\ BagCardinality(inflight') = Pending - 1
                /\ ev'.error # null => serverError' = ev'.error /\ ~saving'
                /\ ev'.error = null => Calls(trace', "closeModal") = <<CloseCall>>
         ]_vars

\* an error response reached the component after it had been dismissed
C10_Witness ==
    /\ ev.type = "response" /\ ev.error # null
    /\ ~show /\ ~view.show
    /\ serverError = ev.error /\ ~saving /\ Pending = 0
====
